---- MODULE Spec2Model ----
(***************************************************************************)
(* A model of the composable task scheduler: the ready-queue policies      *)
(* (FIFO, prioritized single queue, prioritized multi-queue, enqueue       *)
(* extensions), the event handlers and the five sample assemblies.         *)
(* Every event call is synchronous, so each handler is one atomic action.  *)
(***************************************************************************)
EXTENDS Integers, Sequences, FiniteSets, TLC

(***************************************************************************)
(* Bounds of the model and constants of the program                        *)
(***************************************************************************)

\* Number of non-idle tasks the kernel hands to the scheduler
NumTasks == 2

\* Deadlines of real-time tasks are drawn from 1..MaxDeadline
MaxDeadline == 2

\* The largest value of the tick counter. `Tick` is uint32_t in the source and
\* this is UINT32_MAX; the model keeps the unsigned wrap-around, on a smaller
\* range 0..TickMax.
TickMax == 3

\* The template argument `MaxPriorityLevel` of the multi-queue assemblies
MaxPriorityLevel == 3

\* `nullptr`
NULL == -1

\* The idle task, `SimpleTask idleTask(0, 0)`: identifier 0
idleTask == 0

Tasks == 1..NumTasks

AllTasks == {idleTask} \cup Tasks

Levels == 0..MaxPriorityLevel

TickModulus == TickMax + 1

\* The deadline of the idle real-time task (UINT32_MAX: later than any other)
IdleDeadline == MaxDeadline + 1

Assemblies ==
    {"FIFO", "RoundRobin", "PrioritizedRoundRobin", "MultilevelFeedbackQueue", "EarliestDeadlineFirst"}

VARIABLES
    sched,      \* the sample assembly the scheduler is an instance of
    running,    \* the task the kernel runs: the one returned by the last terminating call
    queue,      \* LinkedList<Task> of the single-queue policies
    queues,     \* std::array<Policy*, MaxPriorityLevel + 1> of the multi-queue policy
    priority,   \* SimpleTask::priority
    deadline,   \* SimpleRealtimeTask::deadline
    ticks,      \* SimpleTask::ticks
    inserted,   \* history: every task ever passed to the policy's ready()
    arrival,    \* history: the tasks now in the ready queue, in the order of their ready() calls
    call,       \* the last call made by the kernel: its name and arguments
    result,     \* what the last call returned
    now,        \* the time of the kernel that releases periodic tasks, in ticks
    work        \* the execution time each periodic task still needs

vars == <<sched, running, queue, queues, priority, deadline, ticks, inserted, arrival,
          call, result, now, work>>

(***************************************************************************)
(* Tasks                                                                   *)
(***************************************************************************)

\* A variant of demote that stops one level above the lowest
demote_StopsAboveLowest(p) == IF p > 2 THEN p - 1 ELSE p

\* A variant of demote that drops a task straight to the lowest level
demote_ToLowest(p) == 1

\* SimpleTask::demote
demote(p) == IF p > 1 THEN p - 1 ELSE p

\* SimpleTask::tick on the unsigned counter
tick(n) == (n - 1) % TickModulus

\* A variant of hasUsedUpTimeAllotment that fires one tick early
hasUsedUpTimeAllotment_OneTickEarly(n) == n <= 1

\* SimpleTask::hasUsedUpTimeAllotment
hasUsedUpTimeAllotment(n) == n = 0

\* SimpleTask::QuantumSpecifier; priorities 0 and above 3 are fatal
QuantumSpecifier(p) ==
    CASE p = 1 -> TickMax
      [] p = 2 -> 2
      [] p = 3 -> 1

QuantumSpecifierIsFatal(p) == p \notin {1, 2, 3}

\* The scheduler's view of the world that a handler reads and writes
State == [queue |-> queue, queues |-> queues, priority |-> priority,
          ticks |-> ticks, inserted |-> inserted, arrival |-> arrival]

\* A variant of operator> in which the later deadline ranks higher
Greater_LaterDeadlineFirst(s, lhs, rhs) ==
    IF sched = "EarliestDeadlineFirst"
    THEN deadline[lhs] > deadline[rhs]
    ELSE s.priority[lhs] > s.priority[rhs]

\* AnyPrioritizableTask::operator> : by deadline for the implicitly
\* prioritizable SimpleRealtimeTask (earlier deadline ranks higher), by
\* priority level for SimpleTask
Greater(s, lhs, rhs) ==
    IF sched = "EarliestDeadlineFirst"
    THEN deadline[rhs] > deadline[lhs]
    ELSE s.priority[lhs] > s.priority[rhs]

\* AnyPrioritizableTask::operator>= / SimpleRealtimeTask::operator>=
GreaterOrEqual(s, lhs, rhs) ==
    IF sched = "EarliestDeadlineFirst"
    THEN ~(deadline[lhs] > deadline[rhs])
    ELSE s.priority[lhs] >= s.priority[rhs]

\* The rank of a task as a number: larger runs first
Rank(s, t) == IF sched = "EarliestDeadlineFirst" THEN 0 - deadline[t] ELSE s.priority[t]

\* A variant of orderByPriority that compares with > in place of >=
orderByPriority_TiesFavourSecond(s, task1, task2) ==
    IF Greater(s, task1, task2) THEN <<task1, task2>> ELSE <<task2, task1>>

\* Utilities::orderByPriority: <<higher, lower>>, ties favour task1
orderByPriority(s, task1, task2) ==
    IF GreaterOrEqual(s, task1, task2) THEN <<task1, task2>> ELSE <<task2, task1>>

(***************************************************************************)
(* LinkedList<Task> of the TinkerLibrary dependency                        *)
(***************************************************************************)

\* LinkedList::enqueue: append to the tail
enqueue(list, t) == Append(list, t)

\* LinkedList::dequeue: remove the head; NULL on an empty list
dequeue(list) ==
    IF list = << >>
    THEN [ret |-> NULL, list |-> list]
    ELSE [ret |-> Head(list), list |-> Tail(list)]

\* LinkedList::insert with a comparator: in front of the first item the new
\* one compares greater than, at the tail if there is none
insertPosition(s, list, t) ==
    IF \E i \in 1..Len(list) : Greater(s, t, list[i])
    THEN CHOOSE i \in 1..Len(list) :
            /\ Greater(s, t, list[i])
            /\ \A j \in 1..(i - 1) : ~Greater(s, t, list[j])
    ELSE Len(list) + 1

insert(s, list, t) ==
    LET k == insertPosition(s, list, t)
    IN  SubSeq(list, 1, k - 1) \o <<t>> \o SubSeq(list, k, Len(list))

(***************************************************************************)
(* Ready-queue policies                                                    *)
(***************************************************************************)

\* A variant of FIFO ready() that puts the task at the head of the list
FIFO_ready_AtHead(s, t) == [s EXCEPT !.queue = <<t>> \o @]

\* Policies::FIFO::Normal::LinkedListImp
FIFO_ready(s, t) == [s EXCEPT !.queue = enqueue(@, t)]

FIFO_next(s) ==
    LET d == dequeue(s.queue)
    IN  [ret |-> d.ret, s |-> [s EXCEPT !.queue = d.list]]

\* A variant of the single queue's ready() that appends without comparing
PrioritizedSingleQueue_ready_Unsorted(s, t) == [s EXCEPT !.queue = enqueue(@, t)]

\* A variant of the single queue's next() that reads the head and leaves it
PrioritizedSingleQueue_next_Peek(s) ==
    IF s.queue = << >>
    THEN [ret |-> NULL, s |-> s]
    ELSE [ret |-> Head(s.queue), s |-> s]

\* Policies::PrioritizedSingleQueue::Normal::LinkedListImp
PrioritizedSingleQueue_ready(s, t) ==
    [s EXCEPT !.queue = insert(s, @, t)]

PrioritizedSingleQueue_next(s) ==
    IF s.queue = << >>
    THEN [ret |-> NULL, s |-> s]
    ELSE LET d == dequeue(s.queue)
         IN  [ret |-> d.ret, s |-> [s EXCEPT !.queue = d.list]]

\* PolicyMakers::DynamicFIFO::create: a new, empty FIFO::Virtual::LinkedListImp
DynamicFIFO_create == [made |-> TRUE, queue |-> << >>]

\* An entry of the array that is still a null pointer
NoPolicy == [made |-> FALSE, queue |-> << >>]

\* A variant of the multi-queue's ready() that puts the task at the head of
\* the sub-queue of its level
ArrayMapImp_ready_AtHead(s, t) ==
    LET p == s.priority[t]
        q == IF s.queues[p].made THEN s.queues[p] ELSE DynamicFIFO_create
    IN  [s EXCEPT !.queues[p] = [q EXCEPT !.queue = <<t>> \o @]]

\* Policies::PrioritizedMultiQueue::Normal::ArrayMapImp::ready
ArrayMapImp_ready(s, t) ==
    LET p == s.priority[t]
        q == IF s.queues[p].made THEN s.queues[p] ELSE DynamicFIFO_create
    IN  [s EXCEPT !.queues[p] = [q EXCEPT !.queue = enqueue(@, t)]]

\* Policies::PrioritizedMultiQueue::Normal::ArrayMapImp::next: the loop from
\* the highest priority level down to level 0
RECURSIVE ArrayMapImp_scan(_, _)
ArrayMapImp_scan(s, p) ==
    IF p < 0
    THEN [ret |-> NULL, s |-> s]
    ELSE IF ~s.queues[p].made
         THEN ArrayMapImp_scan(s, p - 1)
         ELSE LET d == dequeue(s.queues[p].queue)
              IN  IF d.ret # NULL
                  THEN [ret |-> d.ret, s |-> [s EXCEPT !.queues[p].queue = d.list]]
                  ELSE ArrayMapImp_scan(s, p - 1)

\* A variant of the multi-queue's next() whose loop runs from level 0 upwards
RECURSIVE ArrayMapImp_scanUp(_, _)
ArrayMapImp_scanUp(s, p) ==
    IF p > MaxPriorityLevel
    THEN [ret |-> NULL, s |-> s]
    ELSE IF ~s.queues[p].made
         THEN ArrayMapImp_scanUp(s, p + 1)
         ELSE LET d == dequeue(s.queues[p].queue)
              IN  IF d.ret # NULL
                  THEN [ret |-> d.ret, s |-> [s EXCEPT !.queues[p].queue = d.list]]
                  ELSE ArrayMapImp_scanUp(s, p + 1)

ArrayMapImp_next_LowestFirst(s) == ArrayMapImp_scanUp(s, 0)

ArrayMapImp_next(s) == ArrayMapImp_scan(s, MaxPriorityLevel)

\* Policies::Extensions::PriorityBasedTaskQuantumAllocator
PriorityBasedTaskQuantumAllocator(s, t) ==
    [s EXCEPT !.ticks[t] = QuantumSpecifier(s.priority[t])]

\* A variant of PolicyWithEnqueueExtensions::ready that runs no extension
PolicyWithEnqueueExtensions_ready_NoExtension(s, t) == ArrayMapImp_ready(s, t)

\* PolicyWithEnqueueExtensions::ready: the extension, then the base policy
PolicyWithEnqueueExtensions_ready(s, t) ==
    ArrayMapImp_ready(PriorityBasedTaskQuantumAllocator(s, t), t)

\* Remove the first occurrence of a task from a sequence
RECURSIVE RemoveFirst(_, _)
RemoveFirst(seq, t) ==
    IF seq = << >> THEN << >>
    ELSE IF Head(seq) = t THEN Tail(seq)
    ELSE <<Head(seq)>> \o RemoveFirst(Tail(seq), t)

\* ready() of the policy each sample assembly inherits from
policyReady(s, t) ==
    CASE sched \in {"FIFO", "RoundRobin"} -> FIFO_ready(s, t)
      [] sched = "PrioritizedRoundRobin" -> ArrayMapImp_ready(s, t)
      [] sched = "MultilevelFeedbackQueue" -> PolicyWithEnqueueExtensions_ready(s, t)
      [] sched = "EarliestDeadlineFirst" -> PrioritizedSingleQueue_ready(s, t)

\* next() of the policy each sample assembly inherits from
policyNext(s) ==
    CASE sched \in {"FIFO", "RoundRobin"} -> FIFO_next(s)
      [] sched \in {"PrioritizedRoundRobin", "MultilevelFeedbackQueue"} -> ArrayMapImp_next(s)
      [] sched = "EarliestDeadlineFirst" -> PrioritizedSingleQueue_next(s)

\* self->ready(task), with the history of the call recorded
ready(s, t) ==
    [policyReady(s, t) EXCEPT !.inserted = @ \cup {t}, !.arrival = Append(@, t)]

\* self->next(), with the history of the call recorded
next(s) ==
    LET n == policyNext(s)
    IN  [ret |-> n.ret, s |-> [n.s EXCEPT !.arrival = RemoveFirst(@, n.ret)]]

\* ready(t) ends in a fatal error: the quantum allocator of the MLFQ assembly
\* is asked for the quantum of a priority level it does not define
readyIsFatal(s, t) ==
    sched = "MultilevelFeedbackQueue" /\ QuantumSpecifierIsFatal(s.priority[t])

\* The tasks in the ready queue, in no particular order, as a sequence
RECURSIVE Flatten(_, _)
Flatten(qs, p) == IF p < 0 THEN << >> ELSE qs[p].queue \o Flatten(qs, p - 1)

ReadyList(s) ==
    IF sched \in {"PrioritizedRoundRobin", "MultilevelFeedbackQueue"}
    THEN Flatten(s.queues, MaxPriorityLevel)
    ELSE s.queue

Range(seq) == {seq[i] : i \in 1..Len(seq)}

ReadySet(s) == Range(ReadyList(s))

\* How many times a task appears in the ready queue
Occurrences(s, t) == Cardinality({i \in 1..Len(ReadyList(s)) : ReadyList(s)[i] = t})

(***************************************************************************)
(* Event handlers: each maps the state, `current` and `task` to the        *)
(* returned task and the state it leaves                                   *)
(***************************************************************************)

\* A variant of the fallback that hands out the first task of the system in
\* place of the idle task
orIdleTask_FirstTask(n) == [ret |-> IF n.ret = NULL THEN 1 ELSE n.ret, s |-> n.s]

\* A variant of the fallback that passes the policy's answer on unchanged
orIdleTask_None(n) == n

\* `next == nullptr ? self->getIdleTask() : next`
orIdleTask(n) == [ret |-> IF n.ret = NULL THEN idleTask ELSE n.ret, s |-> n.s]

\* A variant of the cooperative creation handler that enqueues the new task
\* before it looks at the idle task
TaskCreation_KeepRunningCurrent_EnqueueFirst(s, current, task) ==
    [ret |-> IF current = idleTask THEN task ELSE current, s |-> ready(s, task)]

\* TaskCreation::Cooperative::KeepRunningCurrentWithIdleTaskSupport
TaskCreation_KeepRunningCurrentWithIdleTaskSupport(s, current, task) ==
    IF current = idleTask
    THEN [ret |-> task, s |-> s]
    ELSE [ret |-> current, s |-> ready(s, task)]

\* TaskCreation::Preemptive::RunHigherPriority
TaskCreation_RunHigherPriority(s, current, task) ==
    LET pair == orderByPriority(s, current, task)
    IN  [ret |-> pair[1], s |-> ready(s, pair[2])]

\* A variant of RunHigherPriorityWithIdleTaskSupport that does not enqueue
\* the task of lower priority
TaskCreation_RunHigherPriority_LoserDropped(s, current, task) ==
    IF current = idleTask
    THEN [ret |-> task, s |-> s]
    ELSE [ret |-> orderByPriority(s, current, task)[1], s |-> s]

\* A variant of RunHigherPriorityWithIdleTaskSupport that always runs the new task
TaskCreation_RunHigherPriority_AlwaysPreempt(s, current, task) ==
    IF current = idleTask
    THEN [ret |-> task, s |-> s]
    ELSE [ret |-> task, s |-> ready(s, current)]

\* TaskCreation::Preemptive::RunHigherPriorityWithIdleTaskSupport
TaskCreation_RunHigherPriorityWithIdleTaskSupport(s, current, task) ==
    IF current = idleTask
    THEN [ret |-> task, s |-> s]
    ELSE LET pair == orderByPriority(s, current, task)
         IN  [ret |-> pair[1], s |-> ready(s, pair[2])]

\* A variant of the termination handler that enqueues current first, as the
\* preemptive timer handler does
TaskTermination_RunNext_EnqueueCurrent(s, current) == orIdleTask(next(ready(s, current)))

\* TaskTermination::Common::RunNext
TaskTermination_RunNext(s, current) == next(s)

\* TaskBlocked::Common::RunNext
TaskBlocked_RunNext(s, current) == next(s)

\* TaskTermination::Common::RunNextWithIdleTaskSupport
TaskTermination_RunNextWithIdleTaskSupport(s, current) == orIdleTask(next(s))

\* TaskBlocked::Common::RunNextWithIdleTaskSupport
TaskBlocked_RunNextWithIdleTaskSupport(s, current) == orIdleTask(next(s))

\* A variant of the preemptive unblock handler that enqueues current before
\* it takes the next task
TaskUnblocked_RunNext_CurrentEnqueued(s, current, task) ==
    IF current = NULL
    THEN [ret |-> NULL, s |-> ready(s, task)]
    ELSE next(ready(IF task # NULL THEN ready(s, task) ELSE s, current))

\* A variant of the preemptive unblock handler without the guard on the
\* intermediate call
TaskUnblocked_RunNext_NoIntermediateGuard(s, current, task) ==
    next(IF task # NULL THEN ready(s, task) ELSE s)

\* TaskUnblocked::Preemptive::RunNext
TaskUnblocked_RunNext(s, current, task) ==
    IF current = NULL
    THEN [ret |-> NULL, s |-> ready(s, task)]
    ELSE next(IF task # NULL THEN ready(s, task) ELSE s)

\* TaskUnblocked::Cooperative::KeepRunningCurrent
TaskUnblocked_KeepRunningCurrent(s, current, task) ==
    IF current = NULL
    THEN [ret |-> NULL, s |-> ready(s, task)]
    ELSE [ret |-> current, s |-> IF task # NULL THEN ready(s, task) ELSE s]

\* A variant of the cooperative idle-aware unblock handler that fetches the
\* next task when task is nullptr
TaskUnblocked_KeepRunningCurrent_FetchNext(s, current, task) ==
    IF current = NULL
    THEN [ret |-> NULL, s |-> ready(s, task)]
    ELSE IF task = NULL
         THEN orIdleTask(next(s))
         ELSE IF current = idleTask
              THEN next(ready(s, task))
              ELSE [ret |-> current, s |-> ready(s, task)]

\* TaskUnblocked::Cooperative::KeepRunningCurrentWithIdleTaskSupport
TaskUnblocked_KeepRunningCurrentWithIdleTaskSupport(s, current, task) ==
    IF current = NULL
    THEN [ret |-> NULL, s |-> ready(s, task)]
    ELSE IF task = NULL
         THEN [ret |-> current, s |-> s]
         ELSE IF current = idleTask
              THEN next(ready(s, task))
              ELSE [ret |-> current, s |-> ready(s, task)]

\* A variant of the preemptive idle-aware unblock handler that enqueues
\* current before the unblocked task
TaskUnblocked_RunNext_CurrentEnqueuedFirst(s, current, task) ==
    IF current = NULL
    THEN [ret |-> NULL, s |-> ready(s, task)]
    ELSE LET s1 == IF current # idleTask THEN ready(s, current) ELSE s
             s2 == IF task # NULL THEN ready(s1, task) ELSE s1
         IN  orIdleTask(next(s2))

\* A variant of the preemptive idle-aware unblock handler that does not
\* enqueue current again
TaskUnblocked_RunNext_CurrentNotEnqueued(s, current, task) ==
    IF current = NULL
    THEN [ret |-> NULL, s |-> ready(s, task)]
    ELSE orIdleTask(next(IF task # NULL THEN ready(s, task) ELSE s))

\* TaskUnblocked::Preemptive::RunNextWithIdleTaskSupport
TaskUnblocked_RunNextWithIdleTaskSupport(s, current, task) ==
    IF current = NULL
    THEN [ret |-> NULL, s |-> ready(s, task)]
    ELSE LET s1 == IF task # NULL THEN ready(s, task) ELSE s
             s2 == IF current # idleTask THEN ready(s1, current) ELSE s1
         IN  orIdleTask(next(s2))

\* A variant of the yielding handler that takes the next task before it
\* enqueues current
TaskYielding_RunNext_DequeueFirst(s, current) ==
    LET n == next(s)
    IN  [ret |-> n.ret, s |-> ready(n.s, current)]

\* TaskYielding::Common::RunNext
TaskYielding_RunNext(s, current) == next(ready(s, current))

\* TimerInterrupt::Cooperative::KeepRunningCurrent
TimerInterrupt_KeepRunningCurrent(s, current) == [ret |-> current, s |-> s]

\* A variant of the preemptive timer handler that enqueues current and lets it
\* run on
TimerInterrupt_RunNext_NoDequeue(s, current) ==
    IF current = idleTask
    THEN orIdleTask(next(s))
    ELSE [ret |-> current, s |-> ready(s, current)]

\* A variant of the preemptive timer handler without the guard on the idle task
TimerInterrupt_RunNext_NoIdleGuard(s, current) == orIdleTask(next(ready(s, current)))

\* A variant of the preemptive timer handler that takes the next task before
\* it enqueues current
TimerInterrupt_RunNext_DequeueFirst(s, current) ==
    LET n == orIdleTask(next(s))
    IN  [ret |-> n.ret,
         s |-> IF current # idleTask THEN ready(n.s, current) ELSE n.s]

\* A variant of RunNextWithIdleTaskSupport that gives up the CPU only to a
\* task of higher priority
TimerInterrupt_RunNext_NoRotation(s, current) ==
    IF current = idleTask
    THEN orIdleTask(next(s))
    ELSE LET n == next(s)
         IN  IF n.ret # NULL /\ Greater(s, n.ret, current)
             THEN [ret |-> n.ret, s |-> ready(n.s, current)]
             ELSE [ret |-> current, s |-> s]

\* TimerInterrupt::Preemptive::RunNextWithIdleTaskSupport
TimerInterrupt_RunNextWithIdleTaskSupport(s, current) ==
    LET s1 == IF current # idleTask THEN ready(s, current) ELSE s
    IN  orIdleTask(next(s1))

\* A variant of the quantum handler that enqueues current without demoting it
TaskQuantumUsedUp_RunNext_NoDemotion(s, current) == next(ready(s, current))

\* TaskQuantumUsedUp::Preemptive::RunNextWithDemotion
TaskQuantumUsedUp_RunNextWithDemotion(s, current) ==
    LET s1 == [s EXCEPT !.priority[current] = demote(@)]
    IN  next(ready(s1, current))

\* TaskQuantumUsedUp::Preemptive::RunNextWithQuantumRecharged
TaskQuantumUsedUp_RunNextWithQuantumRecharged(s, current) ==
    LET s1 == [s EXCEPT !.ticks[current] = QuantumSpecifier(s.priority[current])]
    IN  next(ready(s1, current))

\* A variant of RunNextWithDemotionAndQuantumRecharged that allocates the
\* ticks before it demotes the task
TaskQuantumUsedUp_RunNextWithDemotion_RechargedFirst(s, current) ==
    LET s1 == [s EXCEPT !.ticks[current] = QuantumSpecifier(s.priority[current])]
        s2 == [s1 EXCEPT !.priority[current] = demote(@)]
    IN  next(ready(s2, current))

\* TaskQuantumUsedUp::Preemptive::RunNextWithDemotionAndQuantumRecharged
TaskQuantumUsedUp_RunNextWithDemotionAndQuantumRecharged(s, current) ==
    LET s1 == [s EXCEPT !.priority[current] = demote(@)]
        s2 == [s1 EXCEPT !.ticks[current] = QuantumSpecifier(s1.priority[current])]
    IN  next(ready(s2, current))

\* A variant of the quantum-bookkeeping timer handler that tests the quantum
\* before it charges the tick
TimerInterrupt_KeepRunningCurrent_TestBeforeTick(s, current) ==
    IF current = idleTask
    THEN orIdleTask(next(s))
    ELSE IF hasUsedUpTimeAllotment(s.ticks[current])
         THEN TaskQuantumUsedUp_RunNextWithDemotion(s, current)
         ELSE [ret |-> current, s |-> [s EXCEPT !.ticks[current] = tick(@)]]

\* TimerInterrupt::Preemptive::
\*   KeepRunningCurrentWithAnyQuantumUsedUpHandlerAndIdleTaskSupport,
\* composed with RunNextWithDemotion as in
\*   KeepRunningCurrentWithAutoDemotionOnQuantumUsedUpAndIdleTaskSupport
TimerInterrupt_KeepRunningCurrentWithAutoDemotionAndIdleTaskSupport(s, current) ==
    IF current = idleTask
    THEN orIdleTask(next(s))
    ELSE LET s1 == [s EXCEPT !.ticks[current] = tick(@)]
         IN  IF hasUsedUpTimeAllotment(s1.ticks[current])
             THEN TaskQuantumUsedUp_RunNextWithDemotion(s1, current)
             ELSE [ret |-> current, s |-> s1]

(***************************************************************************)
(* The sample assemblies: which handler each event method is               *)
(***************************************************************************)

Prioritized == {"PrioritizedRoundRobin", "MultilevelFeedbackQueue", "EarliestDeadlineFirst"}

onTaskCreated(s, current, task) ==
    IF sched \in {"FIFO", "RoundRobin"}
    THEN TaskCreation_KeepRunningCurrentWithIdleTaskSupport(s, current, task)
    ELSE TaskCreation_RunHigherPriorityWithIdleTaskSupport(s, current, task)

onTaskFinished(s, current) == TaskTermination_RunNextWithIdleTaskSupport(s, current)

onTaskBlocked(s, current) == TaskBlocked_RunNextWithIdleTaskSupport(s, current)

onTaskUnblocked(s, current, task) ==
    IF sched \in {"FIFO", "RoundRobin"}
    THEN TaskUnblocked_KeepRunningCurrentWithIdleTaskSupport(s, current, task)
    ELSE TaskUnblocked_RunNextWithIdleTaskSupport(s, current, task)

onTaskYielded(s, current) == TaskYielding_RunNext(s, current)

onTimerInterrupt(s, current) ==
    CASE sched \in {"FIFO", "EarliestDeadlineFirst"} ->
            TimerInterrupt_KeepRunningCurrent(s, current)
      [] sched \in {"RoundRobin", "PrioritizedRoundRobin"} ->
            TimerInterrupt_RunNextWithIdleTaskSupport(s, current)
      [] sched = "MultilevelFeedbackQueue" ->
            TimerInterrupt_KeepRunningCurrentWithAutoDemotionAndIdleTaskSupport(s, current)

(***************************************************************************)
(* The kernel: construction and the calls it makes                         *)
(***************************************************************************)

\* Task attributes are drawn up to a renaming of the tasks: no code reads an
\* identifier, so the attributes are taken in non-decreasing order of it
Ordered(f) == \A t \in Tasks : t + 1 \in Tasks => f[t] <= f[t + 1]

\* SimpleTask(identifier, priority): levels 1..MaxPriorityLevel, 0 for idle
InitialPriorities ==
    IF sched \in {"PrioritizedRoundRobin", "MultilevelFeedbackQueue"}
    THEN {[t \in AllTasks |-> IF t = idleTask THEN 0 ELSE f[t]] :
            f \in {g \in [Tasks -> 1..MaxPriorityLevel] : Ordered(g)}}
    ELSE {[t \in AllTasks |-> IF t = idleTask THEN 0 ELSE 1]}

\* SimpleRealtimeTask(identifier, deadline)
InitialDeadlines ==
    IF sched = "EarliestDeadlineFirst"
    THEN {[t \in AllTasks |-> IF t = idleTask THEN IdleDeadline ELSE f[t]] :
            f \in {g \in [Tasks -> 1..MaxDeadline] : Ordered(g)}}
    ELSE {[t \in AllTasks |-> 0]}

\* A scheduler constructed with the idle task, which the kernel runs first
Init ==
    /\ sched \in Assemblies
    /\ running = idleTask
    /\ queue = << >>
    /\ queues = [p \in Levels |-> NoPolicy]
    /\ priority \in InitialPriorities
    /\ deadline \in InitialDeadlines
    /\ ticks = [t \in AllTasks |-> 0]
    /\ inserted = {}
    /\ arrival = << >>
    /\ call = [name |-> "new", current |-> NULL, task |-> NULL]
    /\ result = NULL
    /\ now = 0
    /\ work = [t \in AllTasks |-> 0]

\* The state a call leaves, what it returned, and the task the kernel
\* switches to: the returned one, unless the call was an intermediate call
Return(name, current, task, r) ==
    /\ queue' = r.s.queue
    /\ queues' = r.s.queues
    /\ priority' = r.s.priority
    /\ ticks' = r.s.ticks
    /\ inserted' = r.s.inserted
    /\ arrival' = r.s.arrival
    /\ call' = [name |-> name, current |-> current, task |-> task]
    /\ result' = r.ret
    /\ running' = IF current = NULL THEN running ELSE r.ret
    /\ UNCHANGED <<sched, deadline, now, work>>

\* The tasks the kernel may hand over as `task`: neither running nor ready
Fresh == Tasks \ (ReadySet(State) \cup {running})

\* scheduler.ready(task), called by the kernel directly
Ready ==
    \E task \in Fresh :
        /\ queue' = ready(State, task).queue
        /\ queues' = ready(State, task).queues
        /\ ticks' = ready(State, task).ticks
        /\ inserted' = ready(State, task).inserted
        /\ arrival' = ready(State, task).arrival
        /\ call' = [name |-> "ready", current |-> NULL, task |-> task]
        /\ result' = NULL
        /\ UNCHANGED <<sched, running, priority, deadline, now, work>>

\* scheduler.next(), called by the kernel directly
NextTask ==
    /\ queue' = next(State).s.queue
    /\ queues' = next(State).s.queues
    /\ arrival' = next(State).s.arrival
    /\ call' = [name |-> "next", current |-> NULL, task |-> NULL]
    /\ result' = next(State).ret
    /\ UNCHANGED <<sched, running, priority, deadline, ticks, inserted, now, work>>

OnTaskCreated ==
    \E task \in Fresh :
        Return("onTaskCreated", running, task, onTaskCreated(State, running, task))

\* The idle task is always runnable: it neither finishes nor blocks
OnTaskFinished ==
    /\ running # idleTask
    /\ Return("onTaskFinished", running, NULL, onTaskFinished(State, running))

OnTaskBlocked ==
    /\ sched # "EarliestDeadlineFirst"
    /\ running # idleTask
    /\ Return("onTaskBlocked", running, NULL, onTaskBlocked(State, running))

\* An intermediate call: current = nullptr
OnTaskUnblockedIntermediate ==
    /\ sched # "EarliestDeadlineFirst"
    /\ \E task \in Fresh :
        Return("onTaskUnblocked", NULL, task, onTaskUnblocked(State, NULL, task))

\* A terminating call: with a task, or with nullptr to only fetch the next task
OnTaskUnblocked ==
    /\ sched # "EarliestDeadlineFirst"
    /\ \E task \in Fresh \cup {NULL} :
        Return("onTaskUnblocked", running, task, onTaskUnblocked(State, running, task))

OnTaskYielded ==
    /\ sched # "EarliestDeadlineFirst"
    /\ ~readyIsFatal(State, running)
    /\ Return("onTaskYielded", running, NULL, onTaskYielded(State, running))

OnTimerInterrupt ==
    Return("onTimerInterrupt", running, NULL, onTimerInterrupt(State, running))

\* Every well-formed sequence of event calls on a sample assembly
Next ==
    \/ OnTaskCreated
    \/ OnTaskFinished
    \/ OnTaskBlocked
    \/ OnTaskUnblockedIntermediate
    \/ OnTaskUnblocked
    \/ OnTaskYielded
    \/ OnTimerInterrupt

Spec == Init /\ [][Next]_vars

\* Every interleaving of the two primitives of the policy
NextPolicy ==
    \/ Ready
    \/ NextTask

SpecPolicy == Init /\ [][NextPolicy]_vars

\* The FIFO assembly under the events of a first-come, first-served kernel:
\* creation, unblocking (intermediate calls included), termination, blocking
\* and timer interrupts
InitFIFO == Init /\ sched = "FIFO"

NextFIFO ==
    \/ OnTaskCreated
    \/ OnTaskFinished
    \/ OnTaskBlocked
    \/ OnTaskUnblockedIntermediate
    \/ OnTaskUnblocked
    \/ OnTimerInterrupt

SpecFIFO == InitFIFO /\ [][NextFIFO]_vars

\* The MLFQ assembly as its timer test drives it: one task per priority
\* level is created, the tasks are passed to ready(), the kernel runs what
\* next() returns and then takes timer interrupts
ScenarioTasks == 1..MaxPriorityLevel

InitScenario ==
    /\ sched = "MultilevelFeedbackQueue"
    /\ running = idleTask
    /\ queue = << >>
    /\ queues = [p \in Levels |-> NoPolicy]
    /\ priority \in {[t \in {idleTask} \cup ScenarioTasks |-> IF t = idleTask THEN 0 ELSE f[t]] :
                        f \in [ScenarioTasks -> 1..MaxPriorityLevel]}
    /\ deadline = [t \in {idleTask} \cup ScenarioTasks |-> 0]
    /\ ticks = [t \in {idleTask} \cup ScenarioTasks |-> 0]
    /\ inserted = {}
    /\ arrival = << >>
    /\ call = [name |-> "new", current |-> NULL, task |-> NULL]
    /\ result = NULL
    /\ now = 0
    /\ work = [t \in {idleTask} \cup ScenarioTasks |-> 0]

\* scheduler.ready(&t), before any task runs
ScenarioReady ==
    /\ running = idleTask
    /\ \E task \in ScenarioTasks \ inserted :
        LET s == ready(State, task)
        IN  /\ queue' = s.queue
            /\ queues' = s.queues
            /\ ticks' = s.ticks
            /\ inserted' = s.inserted
            /\ arrival' = s.arrival
            /\ call' = [name |-> "ready", current |-> NULL, task |-> task]
            /\ result' = NULL
            /\ UNCHANGED <<sched, running, priority, deadline, now, work>>

\* running = scheduler.next()
ScenarioNext ==
    /\ running = idleTask
    /\ ReadyList(State) # << >>
    /\ LET n == next(State)
       IN  /\ queue' = n.s.queue
           /\ queues' = n.s.queues
           /\ arrival' = n.s.arrival
           /\ call' = [name |-> "next", current |-> NULL, task |-> NULL]
           /\ result' = n.ret
           /\ running' = n.ret
           /\ UNCHANGED <<sched, priority, deadline, ticks, inserted, now, work>>

NextScenario ==
    \/ ScenarioReady
    \/ ScenarioNext
    \/ OnTimerInterrupt

SpecScenario == InitScenario /\ [][NextScenario]_vars

(***************************************************************************)
(* A scheduler for events that concern a queued task: the prioritized      *)
(* multi-queue policy with TaskPriorityChanged::Preemptive::Balance and    *)
(* TaskKilled::Common::KeepRunningCurrent, over three tasks                *)
(***************************************************************************)

\* remove(t): take the task out of the sub-queue of its priority
remove(s, t) ==
    [s EXCEPT !.queues[s.priority[t]].queue = RemoveFirst(@, t),
              !.arrival = RemoveFirst(@, t)]

\* adjustPosition(t, oldPriority): take the task out of the sub-queue of its
\* old priority and insert it into the sub-queue of its priority
adjustPosition(s, t, oldPriority) ==
    ready([s EXCEPT !.queues[oldPriority].queue = RemoveFirst(@, t),
                    !.arrival = RemoveFirst(@, t)], t)

\* A variant of Balance that does not enqueue the task it preempts
TaskPriorityChanged_Balance_CurrentDropped(s, current, task, oldPriority) ==
    LET s1 == adjustPosition(s, task, oldPriority)
    IN  IF Greater(s1, task, current)
        THEN next(s1)
        ELSE [ret |-> current, s |-> s1]

\* TaskPriorityChanged::Preemptive::Balance::onTaskPriorityChanged
TaskPriorityChanged_Balance(s, current, task, oldPriority) ==
    LET s1 == adjustPosition(s, task, oldPriority)
    IN  IF Greater(s1, task, current)
        THEN next(ready(s1, current))
        ELSE [ret |-> current, s |-> s1]

\* A variant of the self priority change handler that keeps current on the
\* CPU unless a ready task has a strictly higher priority
TaskSelfPriorityChanged_Balance_TiesKeepCurrent(s, current) ==
    LET n == next(s)
    IN  IF n.ret = NULL \/ GreaterOrEqual(s, current, n.ret)
        THEN [ret |-> current, s |-> s]
        ELSE [ret |-> n.ret, s |-> ready(n.s, current)]

\* TaskSelfPriorityChanged::Preemptive::Balance::onTaskPriorityChanged
TaskSelfPriorityChanged_Balance(s, current) == next(ready(s, current))

\* What a call returns when an assertion of the handler fails: nothing, the
\* program is aborted
ABORTED == -2

\* passert(condition, ...): the call goes on only if the condition holds
passert(condition, r) == IF condition THEN r ELSE [ret |-> ABORTED, s |-> r.s]

\* A variant of KeepRunningCurrent without the assertion on its arguments
TaskKilled_KeepRunningCurrent_NoAssertion(s, current, task) ==
    IF current = NULL
    THEN [ret |-> NULL, s |-> IF task # NULL THEN remove(s, task) ELSE s]
    ELSE [ret |-> current, s |-> IF task # NULL THEN remove(s, task) ELSE s]

\* A variant of KeepRunningCurrent whose terminating call fetches the next task
TaskKilled_KeepRunningCurrent_FetchNext(s, current, task) ==
    IF current = task
    THEN passert(FALSE, [ret |-> NULL, s |-> s])
    ELSE IF current = NULL
         THEN [ret |-> NULL, s |-> remove(s, task)]
         ELSE next(IF task # NULL THEN remove(s, task) ELSE s)

\* TaskKilled::Common::KeepRunningCurrent::onTaskKilled
TaskKilled_KeepRunningCurrent(s, current, task) ==
    IF current = task
    THEN passert(FALSE, [ret |-> NULL, s |-> s])
    ELSE IF current = NULL
         THEN [ret |-> NULL, s |-> remove(s, task)]
         ELSE [ret |-> current, s |-> IF task # NULL THEN remove(s, task) ELSE s]

QueuedFresh == ScenarioTasks \ (ReadySet(State) \cup {running})

InitQueued ==
    /\ sched = "PrioritizedRoundRobin"
    /\ running = idleTask
    /\ queue = << >>
    /\ queues = [p \in Levels |-> NoPolicy]
    /\ priority \in {[t \in {idleTask} \cup ScenarioTasks |-> IF t = idleTask THEN 0 ELSE f[t]] :
                        f \in [ScenarioTasks -> 1..MaxPriorityLevel]}
    /\ deadline = [t \in {idleTask} \cup ScenarioTasks |-> 0]
    /\ ticks = [t \in {idleTask} \cup ScenarioTasks |-> 0]
    /\ inserted = {}
    /\ arrival = << >>
    /\ call = [name |-> "new", current |-> NULL, task |-> NULL]
    /\ result = NULL
    /\ now = 0
    /\ work = [t \in {idleTask} \cup ScenarioTasks |-> 0]

\* scheduler.ready(&t), called by the kernel directly
QueuedReady ==
    /\ result # ABORTED
    /\ \E task \in QueuedFresh :
        LET s == ready(State, task)
        IN  /\ queue' = s.queue
            /\ queues' = s.queues
            /\ ticks' = s.ticks
            /\ inserted' = s.inserted
            /\ arrival' = s.arrival
            /\ call' = [name |-> "ready", current |-> NULL, task |-> task]
            /\ result' = NULL
            /\ UNCHANGED <<sched, running, priority, deadline, now, work>>

\* The kernel changes the priority of a ready task while a task runs (the
\* handler has no idle task support) and tells the scheduler
OnTaskPriorityChanged ==
    /\ result # ABORTED
    /\ running # idleTask
    /\ \E task \in ReadySet(State) \cap ScenarioTasks :
           \E new \in (1..MaxPriorityLevel) \ {priority[task]} :
               Return("onTaskPriorityChanged", running, task,
                      TaskPriorityChanged_Balance([State EXCEPT !.priority[task] = new],
                                                  running, task, priority[task]))

\* onTaskKilled(nullptr, &task): a ready task is killed, more calls follow
OnTaskKilledIntermediate ==
    /\ result # ABORTED
    /\ \E task \in ReadySet(State) \cap ScenarioTasks :
        Return("onTaskKilled", NULL, task, TaskKilled_KeepRunningCurrent(State, NULL, task))

\* onTaskKilled(running, &task) or onTaskKilled(running, nullptr)
OnTaskKilled ==
    /\ result # ABORTED
    /\ \E task \in (ReadySet(State) \cap ScenarioTasks) \cup {NULL} :
        Return("onTaskKilled", running, task, TaskKilled_KeepRunningCurrent(State, running, task))

\* onTaskKilled(running, running) or onTaskKilled(nullptr, nullptr): the
\* kernel breaks the precondition of the handler; nothing is dispatched
OnTaskKilledMisused ==
    /\ result # ABORTED
    /\ \E who \in {running, NULL} :
        LET r == TaskKilled_KeepRunningCurrent(State, who, who)
        IN  /\ queue' = r.s.queue
            /\ queues' = r.s.queues
            /\ priority' = r.s.priority
            /\ ticks' = r.s.ticks
            /\ inserted' = r.s.inserted
            /\ arrival' = r.s.arrival
            /\ call' = [name |-> "onTaskKilled", current |-> who, task |-> who]
            /\ result' = r.ret
            /\ UNCHANGED <<sched, running, deadline, now, work>>

\* running = scheduler.next()
QueuedNext == result # ABORTED /\ ScenarioNext

\* The running task changes its own priority and tells the scheduler
OnTaskSelfPriorityChanged ==
    /\ result # ABORTED
    /\ running \in ScenarioTasks
    /\ \E new \in (1..MaxPriorityLevel) \ {priority[running]} :
           Return("onTaskSelfPriorityChanged", running, NULL,
                  TaskSelfPriorityChanged_Balance([State EXCEPT !.priority[running] = new],
                                                  running))

\* scheduler.onTimerInterrupt(running)
QueuedTimerInterrupt == result # ABORTED /\ OnTimerInterrupt

NextQueued ==
    \/ QueuedReady
    \/ QueuedNext
    \/ OnTaskPriorityChanged
    \/ OnTaskKilledIntermediate
    \/ OnTaskKilled
    \/ OnTaskKilledMisused
    \/ QueuedTimerInterrupt
    \/ OnTaskSelfPriorityChanged

SpecQueued == InitQueued /\ [][NextQueued]_vars

(***************************************************************************)
(* The EarliestDeadlineFirst assembly driven by a kernel that releases     *)
(* three periodic tasks, as in the timer interrupt test of the assembly    *)
(***************************************************************************)

\* Execution time and period of T1, T2, T3; the deadline is the period
ExecutionTime == <<1, 2, 3>>

Period == <<4, 6, 8>>

\* The time at which the task set is released together again
Hyperperiod == 24

InitPeriodic ==
    /\ sched = "EarliestDeadlineFirst"
    /\ running = idleTask
    /\ queue = << >>
    /\ queues = [p \in Levels |-> NoPolicy]
    /\ priority = [t \in {idleTask} \cup ScenarioTasks |-> 0]
    /\ deadline = [t \in {idleTask} \cup ScenarioTasks |->
                        IF t = idleTask THEN Hyperperiod + 1 ELSE 0]
    /\ ticks = [t \in {idleTask} \cup ScenarioTasks |-> 0]
    /\ inserted = {}
    /\ arrival = << >>
    /\ call = [name |-> "new", current |-> NULL, task |-> NULL]
    /\ result = NULL
    /\ now = 0
    /\ work = [t \in {idleTask} \cup ScenarioTasks |-> 0]

\* The job of the task for the period that starts now has not been made
Due(t) == now % Period[t] = 0 /\ deadline[t] # now + Period[t]

\* The job of the task has been made and not yet given to the scheduler
Released(t) == work[t] > 0 /\ t # running /\ t \notin ReadySet(State)

\* The running task has received its execution time
Completed == running # idleTask /\ work[running] = 0

\* Every event of the current time has been delivered
Settled == ~Completed /\ \A t \in ScenarioTasks : ~Due(t) /\ ~Released(t)

\* SimpleRealtimeTask job(t, now + period): the kernel makes the next job
PeriodicRelease ==
    \E t \in ScenarioTasks :
        /\ Due(t)
        /\ work[t] = 0
        /\ deadline' = [deadline EXCEPT ![t] = now + Period[t]]
        /\ work' = [work EXCEPT ![t] = ExecutionTime[t]]
        /\ call' = [name |-> "SimpleRealtimeTask", current |-> NULL, task |-> t]
        /\ result' = NULL
        /\ UNCHANGED <<sched, running, queue, queues, priority, ticks, inserted, arrival, now>>

\* scheduler.onTaskCreated(running, &job)
PeriodicCreated ==
    \E t \in ScenarioTasks :
        /\ Released(t)
        /\ Return("onTaskCreated", running, t, onTaskCreated(State, running, t))

\* scheduler.onTaskFinished(running)
PeriodicFinished ==
    /\ Completed
    /\ Return("onTaskFinished", running, NULL, onTaskFinished(State, running))

\* A tick passes and scheduler.onTimerInterrupt(running) is called
PeriodicTick ==
    /\ Settled
    /\ now < Hyperperiod
    /\ LET r == onTimerInterrupt(State, running)
       IN  /\ queue' = r.s.queue
           /\ queues' = r.s.queues
           /\ priority' = r.s.priority
           /\ ticks' = r.s.ticks
           /\ inserted' = r.s.inserted
           /\ arrival' = r.s.arrival
           /\ call' = [name |-> "onTimerInterrupt", current |-> running, task |-> NULL]
           /\ result' = r.ret
           /\ running' = r.ret
    /\ now' = now + 1
    /\ work' = IF running = idleTask THEN work ELSE [work EXCEPT ![running] = @ - 1]
    /\ UNCHANGED <<sched, deadline>>

NextPeriodic ==
    \/ PeriodicRelease
    \/ PeriodicCreated
    \/ PeriodicFinished
    \/ PeriodicTick

SpecPeriodic == InitPeriodic /\ [][NextPeriodic]_vars

\* The timer test of the MLFQ assembly under a timer that keeps firing: the
\* kernel takes an interrupt whenever one changes the state of the scheduler
SpecScenarioFair == SpecScenario /\ WF_vars(OnTimerInterrupt)

(***************************************************************************)
(* The prioritized multi-queue and the prioritized single queue side by    *)
(* side: every ready() and next() is made on both, the multi-queue in      *)
(* `queues`, the single queue in `queue`                                   *)
(***************************************************************************)

\* Three tasks of any priorities, which stay as they are; both queues empty
InitPair == InitQueued

\* The tasks that are in neither queue
PairFresh == ScenarioTasks \ (Range(Flatten(queues, MaxPriorityLevel)) \cup Range(queue))

\* ready(&t) on both policies
PairReady ==
    \E task \in PairFresh :
        /\ queues' = ArrayMapImp_ready(State, task).queues
        /\ queue' = PrioritizedSingleQueue_ready(State, task).queue
        /\ inserted' = inserted \cup {task}
        /\ arrival' = Append(arrival, task)
        /\ call' = [name |-> "ready", current |-> NULL, task |-> task]
        /\ result' = NULL
        /\ UNCHANGED <<sched, running, priority, deadline, ticks, now, work>>

\* next() on both policies: what each returns is recorded
PairNext ==
    LET multi == ArrayMapImp_next(State)
        single == PrioritizedSingleQueue_next(State)
    IN  /\ queues' = multi.s.queues
        /\ queue' = single.s.queue
        /\ arrival' = RemoveFirst(arrival, multi.ret)
        /\ call' = [name |-> "next", current |-> NULL, task |-> NULL]
        /\ result' = [multi |-> multi.ret, single |-> single.ret]
        /\ UNCHANGED <<sched, running, priority, deadline, ticks, inserted, now, work>>

NextPair ==
    \/ PairReady
    \/ PairNext

SpecPair == InitPair /\ [][NextPair]_vars

(***************************************************************************)
(* Vocabulary of the properties                                            *)
(***************************************************************************)

\* The state a step leaves
StateAfter == [queue |-> queue', queues |-> queues', priority |-> priority',
               ticks |-> ticks', inserted |-> inserted', arrival |-> arrival']

\* The last call was a terminating call of an event method
Terminating == call.current # NULL

\* The step is a terminating call of an event method
TerminatingStep == call'.current # NULL

\* The rank the policy orders by: none in the FIFO policy
PolicyRank(s, t) == IF sched \in {"FIFO", "RoundRobin"} THEN 0 ELSE Rank(s, t)

\* The position of a task in a sequence that holds it
Position(seq, t) == CHOOSE i \in 1..Len(seq) : seq[i] = t

\* The step is a call of the primitive next() / ready()
NextStep == call'.name = "next"

ReadyStep == call'.name = "ready"

\* The step is an MLFQ timer interrupt on a task whose quantum is not drained
KeepsQuantumStep ==
    /\ sched = "MultilevelFeedbackQueue"
    /\ call'.name = "onTimerInterrupt"
    /\ running # idleTask
    /\ ~hasUsedUpTimeAllotment(tick(ticks[running]))

(***************************************************************************)
(* C1: highest rank first across queues                                    *)
(***************************************************************************)

\* C1, as stated: in the PrioritizedRoundRobin and MultilevelFeedbackQueue
\* assemblies the task returned by any terminating call has a priority not
\* lower than that of any task left in the ready queue.
C1_AnyTerminatingCallReturnsHighest ==
    (sched \in {"PrioritizedRoundRobin", "MultilevelFeedbackQueue"} /\ Terminating)
        => \A u \in ReadySet(State) : priority[result] >= priority[u]

\* C1, amended: the same, for every terminating call other than onTaskCreated
\* and other than an MLFQ onTimerInterrupt that keeps a task whose quantum is
\* not drained.
C1_DispatchingCallReturnsHighest ==
    [][(/\ sched \in {"PrioritizedRoundRobin", "MultilevelFeedbackQueue"}
        /\ TerminatingStep
        /\ call'.name # "onTaskCreated"
        /\ ~KeepsQuantumStep)
            => \A u \in ReadySet(StateAfter) : priority'[result'] >= priority'[u]]_vars

\* C1 witness: a terminating call took the best of several ready tasks and
\* left a task of strictly lower priority in the ready queue.
C1_Witness ==
    /\ sched \in {"PrioritizedRoundRobin", "MultilevelFeedbackQueue"}
    /\ Terminating
    /\ call.name \in {"onTaskUnblocked", "onTaskBlocked", "onTaskFinished"}
    /\ result \in Tasks
    /\ \E u \in ReadySet(State) \cap Tasks : priority[u] < priority[result]

(***************************************************************************)
(* C2: no inversion in the prioritized policies                            *)
(***************************************************************************)

\* C2: in the prioritized policies, when next() returns t no task that was in
\* the queue at the call ranks strictly higher than t, and next() returns none
\* only when the queue was empty.
C2_NoInversion ==
    [][(sched \in Prioritized /\ NextStep)
        => /\ result' # NULL =>
                \A u \in ReadySet(State) : ~(PolicyRank(State, u) > PolicyRank(State, result'))
           /\ result' = NULL => ReadySet(State) = {}]_vars

\* C2 witness: next() of a prioritized policy returned a task and left a task
\* of strictly lower rank behind.
C2_Witness ==
    /\ sched \in Prioritized
    /\ call.name = "next"
    /\ result # NULL
    /\ \E u \in ReadySet(State) : PolicyRank(State, u) < PolicyRank(State, result)

(***************************************************************************)
(* C3: first come, first served among equals                               *)
(***************************************************************************)

\* C3: of the tasks of equal rank in the queue, next() returns the one that
\* was passed to ready() first.
C3_TieBreakIsFCFS ==
    [][(NextStep /\ result' # NULL)
        => \A u \in ReadySet(State) \ {result'} :
              PolicyRank(State, u) = PolicyRank(State, result')
                  => Position(arrival, result') < Position(arrival, u)]_vars

\* C3 witness: next() returned a task while a task of the same rank, passed
\* to ready() after it, stays in the queue.
C3_Witness ==
    /\ call.name = "next"
    /\ result # NULL
    /\ \E u \in ReadySet(State) : PolicyRank(State, u) = PolicyRank(State, result)

(***************************************************************************)
(* C4: next() removes one task, ready() adds one                           *)
(***************************************************************************)

\* C4: a task returned by next() is no longer in the queue, a task passed to
\* ready() is in it exactly once, and neither call adds or removes any other
\* task.
C4_PrimitivesMoveOneTask ==
    [][/\ (NextStep /\ result' # NULL) =>
            \A u \in AllTasks :
                Occurrences(StateAfter, u) =
                    Occurrences(State, u) - (IF u = result' THEN 1 ELSE 0)
       /\ (NextStep /\ result' # NULL) => result' \notin ReadySet(StateAfter)
       /\ (NextStep /\ result' = NULL) => ReadyList(StateAfter) = ReadyList(State)
       /\ ReadyStep =>
            \A u \in AllTasks :
                Occurrences(StateAfter, u) =
                    Occurrences(State, u) + (IF u = call'.task THEN 1 ELSE 0)
       /\ ReadyStep => Occurrences(StateAfter, call'.task) = 1]_vars

\* C4 witness: ready() added a task to a queue that held another one.
C4_Witness ==
    /\ call.name = "ready"
    /\ Occurrences(State, call.task) = 1
    /\ Len(ReadyList(State)) > 1

(***************************************************************************)
(* C5: a handler returns only tasks it was given                           *)
(***************************************************************************)

\* The step is a call of an event method
EventStep == call'.name \in {"onTaskCreated", "onTaskFinished", "onTaskBlocked",
                             "onTaskUnblocked", "onTaskYielded", "onTimerInterrupt"}

\* C5: the task an event method returns is none, the idle task, the call's
\* current, the call's task, or a task an earlier call put in the ready queue.
C5_ReturnsOnlyGivenTasks ==
    [][EventStep =>
          result' \in {NULL, idleTask, call'.current, call'.task} \cup inserted]_vars

\* C5 witness: an event method returned a task that is neither of its
\* arguments nor the idle task, one that an earlier call had made ready.
C5_Witness ==
    /\ call.name \in {"onTaskFinished", "onTaskBlocked", "onTaskUnblocked",
                      "onTaskYielded", "onTimerInterrupt"}
    /\ result \in Tasks \ {call.current, call.task}
    /\ result \in inserted

(***************************************************************************)
(* C6: a terminating call always names a task to run                       *)
(***************************************************************************)

C7_IdleOnlyWhenNothingReady ==
    (sched \in {"FIFO", "RoundRobin"} /\ Terminating /\ result = idleTask)
        => ReadySet(State) = {}

(***************************************************************************)
(* C8: the running task is not in the ready queue                          *)
(***************************************************************************)

\* C8: in the FIFO, RoundRobin, PrioritizedRoundRobin and
\* MultilevelFeedbackQueue assemblies the running task is never in the ready
\* queue.
C8_RunningNotReady ==
    sched \in {"FIFO", "RoundRobin", "PrioritizedRoundRobin", "MultilevelFeedbackQueue"}
        => running \notin ReadySet(State)

\* C8 witness: a task was taken out of a ready queue that holds other tasks,
\* and runs.
C8_Witness ==
    /\ sched \in {"FIFO", "RoundRobin", "PrioritizedRoundRobin", "MultilevelFeedbackQueue"}
    /\ Terminating
    /\ running \in Tasks
    /\ running \in inserted
    /\ ReadySet(State) \cap Tasks # {}

(***************************************************************************)
(* C9: no task is ready twice                                              *)
(***************************************************************************)

\* C9: in every sample assembly no task appears more than once in the ready
\* queue.
C9_NoDuplicates == \A t \in AllTasks : Occurrences(State, t) <= 1

\* C9 witness: a task that went through the ready queue before is in it
\* again, once, next to another task.
C9_Witness ==
    /\ call.name \in {"onTimerInterrupt", "onTaskYielded", "onTaskCreated"}
    /\ \E t \in Tasks :
          /\ Occurrences(State, t) = 1
          /\ t = call.current
          /\ t \in Range(arrival)
    /\ Len(ReadyList(State)) > 1

(***************************************************************************)
(* C10: the idle task is never made ready                                  *)
(***************************************************************************)

\* The step is a call served by a handler with idle-task support
IdleAwareStep ==
    \/ call'.name \in {"onTaskCreated", "onTaskFinished", "onTaskBlocked", "onTaskUnblocked"}
    \/ /\ call'.name = "onTimerInterrupt"
       /\ sched \in {"RoundRobin", "PrioritizedRoundRobin", "MultilevelFeedbackQueue"}

\* C10: no handler with idle-task support puts the idle task in the ready
\* queue.
C10_IdleNeverInserted ==
    [][IdleAwareStep =>
          Occurrences(StateAfter, idleTask) <= Occurrences(State, idleTask)]_vars

\* C10 witness: a handler with idle-task support was called with the idle
\* task as current, made a task ready, and the idle task is not in the queue.
C10_Witness ==
    /\ call.current = idleTask
    /\ call.name \in {"onTaskUnblocked", "onTimerInterrupt"}
    /\ sched \in {"RoundRobin", "PrioritizedRoundRobin", "MultilevelFeedbackQueue"}
    /\ ReadySet(State) # {}
    /\ idleTask \notin ReadySet(State)

(***************************************************************************)
(* C11: the FIFO assembly is first come, first served                      *)
(***************************************************************************)

\* The step hands the CPU to a task that was not running
DispatchStep == TerminatingStep /\ result' \in Tasks /\ result' # running

\* C11, as stated: in the FIFO assembly a task that was admitted earlier and
\* has not been dispatched yet is dispatched before any task admitted later:
\* whenever a task is dispatched while other tasks wait in the ready queue, it
\* is the one of them that was admitted first.
C11_FirstAdmittedFirstDispatched ==
    [][(sched = "FIFO" /\ DispatchStep)
        => \A u \in ReadySet(State) \ {result'} :
              /\ result' \in ReadySet(State)
              /\ Position(arrival, result') < Position(arrival, u)]_vars

(***************************************************************************)
(* C12: round-robin rotation                                               *)
(***************************************************************************)

\* The tasks that k successive onTimerInterrupt calls return, each call
\* passing the task the previous one returned
RECURSIVE TimerInterrupts(_, _, _)
TimerInterrupts(s, current, k) ==
    IF k = 0
    THEN << >>
    ELSE LET r == onTimerInterrupt(s, current)
         IN  <<r.ret>> \o TimerInterrupts(r.s, r.ret, k - 1)

\* C12: in the RoundRobin assembly, with a non-idle task T0 running and
\* T1..Tn in the ready queue, n + 1 successive timer interrupts return
\* T1, ..., Tn, T0 in that order; with an empty queue the interrupt returns T0.
C12_RoundRobinRotation ==
    (sched = "RoundRobin" /\ running \in Tasks)
        => TimerInterrupts(State, running, Len(queue) + 1) = queue \o <<running>>

\* C12 witness: a timer interrupt of the RoundRobin assembly took the CPU from
\* one task and gave it to the head of the ready queue, and the preempted task
\* waits at the tail.
C12_Witness ==
    /\ sched = "RoundRobin"
    /\ call.name = "onTimerInterrupt"
    /\ call.current \in Tasks
    /\ running \in Tasks \ {call.current}
    /\ queue # << >>
    /\ queue[Len(queue)] = call.current

(***************************************************************************)
(* C13: preemptive task creation                                           *)
(***************************************************************************)

\* What the preemptive creation handlers owe for a non-idle current: the new
\* task runs if and only if it ranks strictly higher, and exactly the other
\* one of the two is added to the ready queue
CreationContract(r, current, task) ==
    LET winner == IF Greater(State, task, current) THEN task ELSE current
        loser == IF winner = task THEN current ELSE task
    IN  /\ r.ret = winner
        /\ \A u \in AllTasks :
              Occurrences(r.s, u) = Occurrences(State, u) + (IF u = loser THEN 1 ELSE 0)

\* C13: onTaskCreated(current, task) of RunHigherPriority and of
\* RunHigherPriorityWithIdleTaskSupport, called with a non-idle current,
\* returns task if and only if task ranks strictly higher than current and
\* current otherwise, and inserts exactly the other one; the idle-aware
\* variant called with the idle task as current returns task and inserts
\* nothing.
C13_CreationRunsHigherPriority ==
    sched \in Prioritized =>
        \A task \in Fresh :
            /\ running # idleTask =>
                /\ CreationContract(
                        TaskCreation_RunHigherPriority(State, running, task), running, task)
                /\ CreationContract(
                        TaskCreation_RunHigherPriorityWithIdleTaskSupport(State, running, task),
                        running, task)
            /\ running = idleTask =>
                LET r == TaskCreation_RunHigherPriorityWithIdleTaskSupport(State, running, task)
                IN  /\ r.ret = task
                    /\ ReadyList(r.s) = ReadyList(State)

\* C13 witness: a created task of strictly higher rank took the CPU and the
\* task that was running went to the ready queue.
C13_Witness ==
    /\ sched \in Prioritized
    /\ call.name = "onTaskCreated"
    /\ call.current \in Tasks
    /\ result = call.task
    /\ Greater(State, call.task, call.current)
    /\ call.current \in ReadySet(State)

(***************************************************************************)
(* C14: the intermediate-call protocol of onTaskUnblocked                  *)
(***************************************************************************)

\* The four onTaskUnblocked handlers
UnblockedVariants ==
    {"RunNext", "RunNextWithIdleTaskSupport",
     "KeepRunningCurrent", "KeepRunningCurrentWithIdleTaskSupport"}

Unblocked(v, s, current, task) ==
    CASE v = "RunNext" -> TaskUnblocked_RunNext(s, current, task)
      [] v = "RunNextWithIdleTaskSupport" ->
            TaskUnblocked_RunNextWithIdleTaskSupport(s, current, task)
      [] v = "KeepRunningCurrent" -> TaskUnblocked_KeepRunningCurrent(s, current, task)
      [] v = "KeepRunningCurrentWithIdleTaskSupport" ->
            TaskUnblocked_KeepRunningCurrentWithIdleTaskSupport(s, current, task)

\* The state after a batch of intermediate calls, one per task of the batch
RECURSIVE IntermediateCalls(_, _, _)
IntermediateCalls(v, s, batch) ==
    IF batch = << >>
    THEN s
    ELSE IntermediateCalls(v, Unblocked(v, s, NULL, Head(batch)).s, Tail(batch))

\* The state after ready() of each task of the batch
RECURSIVE ReadyAll(_, _)
ReadyAll(s, batch) ==
    IF batch = << >> THEN s ELSE ReadyAll(ready(s, Head(batch)), Tail(batch))

\* The batches of distinct tasks of a set, in every order
Batches(S) ==
    {b \in UNION {[1..n -> S] : n \in 0..Cardinality(S)} :
        \A i, j \in 1..Len(b) : b[i] = b[j] => i = j}

\* C14: in all four onTaskUnblocked handlers a call with current = null and
\* task = t returns none, adds t to the ready queue, removes nothing and
\* dispatches nothing; a batch of intermediate calls followed by a terminating
\* call returns the same task and leaves the same ready queue as ready() of
\* the batch's tasks in call order followed by the terminating call alone.
C14_IntermediateCallsOnlyEnqueue ==
    sched # "EarliestDeadlineFirst" =>
        \A v \in UnblockedVariants :
            /\ \A t \in Fresh :
                  LET r == Unblocked(v, State, NULL, t)
                  IN  /\ r.ret = NULL
                      /\ \A u \in AllTasks :
                            Occurrences(r.s, u) =
                                Occurrences(State, u) + (IF u = t THEN 1 ELSE 0)
                      /\ r.s = ready(State, t)
            /\ \A batch \in Batches(Fresh) :
                  \A task \in (Fresh \ Range(batch)) \cup {NULL} :
                      Unblocked(v, IntermediateCalls(v, State, batch), running, task)
                          = Unblocked(v, ReadyAll(State, batch), running, task)

\* C14 witness: two intermediate calls in a row put two tasks in the ready
\* queue, in call order, and nothing was dispatched.
C14_Witness ==
    /\ call.name = "onTaskUnblocked"
    /\ call.current = NULL
    /\ result = NULL
    /\ Len(ReadyList(State)) >= 2
    /\ Len(arrival) >= 2
    /\ arrival[Len(arrival)] = call.task

(***************************************************************************)
(* C15: a finished or blocked task is not made ready                       *)
(***************************************************************************)

\* The call took exactly the task it returned out of the ready queue, or
\* nothing when it found the queue empty, and kept the rest in place
TakesOnlyReturned(r, fallback) ==
    IF ReadyList(State) = << >>
    THEN r.ret = fallback /\ ReadyList(r.s) = << >>
    ELSE /\ r.ret = policyNext(State).ret
         /\ r.ret \in ReadySet(State)
         /\ ReadyList(r.s) = RemoveFirst(ReadyList(State), r.ret)

\* C15: onTaskFinished(current) and onTaskBlocked(current) never put current
\* in the ready queue; they return the task next() yields, removing exactly
\* that task, or the idle task (none, without idle-task support) when the
\* queue is empty, and leave the rest of the queue unchanged.
C15_FinishedAndBlockedOnlyDequeue ==
    [][call'.name \in {"onTaskFinished", "onTaskBlocked"}
        => /\ running \notin Range(ReadyList(StateAfter))
           /\ TakesOnlyReturned([ret |-> result', s |-> StateAfter], idleTask)
           /\ TakesOnlyReturned(TaskTermination_RunNextWithIdleTaskSupport(State, running), idleTask)
           /\ TakesOnlyReturned(TaskBlocked_RunNextWithIdleTaskSupport(State, running), idleTask)
           /\ TakesOnlyReturned(TaskTermination_RunNext(State, running), NULL)
           /\ TakesOnlyReturned(TaskBlocked_RunNext(State, running), NULL)]_vars

\* C15 witness: the running task finished or blocked, a task of the ready
\* queue was returned, and the task that stopped is not in the queue.
C15_Witness ==
    /\ call.name \in {"onTaskFinished", "onTaskBlocked"}
    /\ call.current \in Tasks
    /\ result \in Tasks \cap inserted
    /\ call.current \notin ReadySet(State)
    /\ result \notin ReadySet(State)

(***************************************************************************)
(* C16: yielding                                                           *)
(***************************************************************************)

C18_GroupUnblockRunsHighest ==
    [][(/\ sched \in {"PrioritizedRoundRobin", "MultilevelFeedbackQueue"}
        /\ call'.name = "onTaskUnblocked"
        /\ TerminatingStep)
        => /\ \A u \in ReadySet(State) \cup {running} \cup ({call'.task} \ {NULL}) :
                priority[result'] >= priority[u]
           /\ (result' # running /\ running # idleTask)
                => running \in ReadySet(StateAfter)]_vars

\* C18 witness: after an intermediate call, the terminating call with no task
\* of its own preempted the running task for the task unblocked before, and
\* the preempted task is in the ready queue.
C18_Witness ==
    /\ sched \in {"PrioritizedRoundRobin", "MultilevelFeedbackQueue"}
    /\ call.name = "onTaskUnblocked"
    /\ call.current \in Tasks
    /\ call.task = NULL
    /\ result \in Tasks \ {call.current}
    /\ priority[result] > priority[call.current]
    /\ call.current \in ReadySet(State)

(***************************************************************************)
(* C19: the MLFQ demotion scenario                                         *)
(***************************************************************************)

\* The priorities of T1, T2 and T3
Priorities(p1, p2, p3) ==
    [t \in {idleTask} \cup ScenarioTasks |->
        CASE t = 1 -> p1 [] t = 2 -> p2 [] t = 3 -> p3 [] OTHER -> 0]

\* A timer interrupt arrives while task t, returned by the call before (a
\* call on prev), runs with n ticks left, the tasks have the priorities prio
\* and the levels 1, 2 and 3 of the ready queue hold l1, l2 and l3
TimerAt(prev, t, n, prio, l1, l2, l3) ==
    /\ call'.name = "onTimerInterrupt"
    /\ call.current = prev
    /\ result = t
    /\ running = t
    /\ ticks[t] = n
    /\ priority = prio
    /\ queues[1].queue = l1
    /\ queues[2].queue = l2
    /\ queues[3].queue = l3

\* The part of the scenario on which the statement and the code agree: next()
\* returns T3; one interrupt demotes T3 to level 2 and returns T2; two
\* interrupts on T2 demote it to level 1 and return T3 at level 2
ScenarioUpToT3 ==
    /\ (/\ call'.name = "next"
        /\ priority = Priorities(1, 2, 3)
        /\ queues[1].queue = <<1>> /\ queues[2].queue = <<2>> /\ queues[3].queue = <<3>>)
            => result' = 3
    /\ TimerAt(NULL, 3, 1, Priorities(1, 2, 3), <<1>>, <<2>>, << >>)
            => result' = 2 /\ priority' = Priorities(1, 2, 2)
    /\ TimerAt(3, 2, 2, Priorities(1, 2, 2), <<1>>, <<3>>, << >>)
            => result' = 2 /\ priority' = Priorities(1, 2, 2)
    /\ TimerAt(2, 2, 1, Priorities(1, 2, 2), <<1>>, <<3>>, << >>)
            => result' = 3 /\ priority' = Priorities(1, 1, 2)

\* C19, as stated: after T3 is returned at level 2, one timer interrupt on T3
\* exhausts its quantum, demotes it to level 1 and returns T1.
C19_OneInterruptExhaustsT3 ==
    [][/\ ScenarioUpToT3
       /\ TimerAt(2, 3, 2, Priorities(1, 1, 2), <<1, 2>>, << >>, << >>)
            => result' = 1 /\ priority' = Priorities(1, 1, 1)]_vars

\* C19, amended: after T3 is returned at level 2, the first timer interrupt on
\* T3 leaves it running at level 2 with one tick left, and the second one
\* exhausts its quantum, demotes it to level 1 and returns T1.
C19_TwoInterruptsExhaustT3 ==
    [][/\ ScenarioUpToT3
       /\ TimerAt(2, 3, 2, Priorities(1, 1, 2), <<1, 2>>, << >>, << >>)
            => result' = 3 /\ priority' = Priorities(1, 1, 2) /\ ticks'[3] = 1
       /\ TimerAt(3, 3, 1, Priorities(1, 1, 2), <<1, 2>>, << >>, << >>)
            => result' = 1 /\ priority' = Priorities(1, 1, 1)]_vars

\* C19 witness: the end of the scenario: the interrupt on T3 returned T1, all
\* three tasks are at level 1 and T2 and T3 wait there in that order.
C19_Witness ==
    /\ sched = "MultilevelFeedbackQueue"
    /\ call.name = "onTimerInterrupt"
    /\ call.current = 3
    /\ result = 1
    /\ priority = Priorities(1, 1, 1)
    /\ queues[1].queue = <<2, 3>>
    /\ arrival = <<2, 3>>

(***************************************************************************)
(* C20: demotion under consecutive timer interrupts                        *)
(***************************************************************************)

\* The number of consecutive timer interrupts the property follows
MaxInterrupts == 4

\* The lowest level: SimpleTask::demote stops there
LowestLevel == 1

Max(a, b) == IF a >= b THEN a ELSE b

\* The scheduler state after k consecutive timer interrupts on current
RECURSIVE AfterTimerInterrupts(_, _, _)
AfterTimerInterrupts(s, current, k) ==
    IF k = 0
    THEN s
    ELSE AfterTimerInterrupts(onTimerInterrupt(s, current).s, current, k - 1)

\* The task is the only runnable task and starts with the quantum of its level
RunsAlone(t) ==
    /\ sched = "MultilevelFeedbackQueue"
    /\ running = t
    /\ t # idleTask
    /\ ReadyList(State) = << >>
    /\ ticks[t] = QuantumSpecifier(priority[t])

\* The level of a task that started at level p, after k interrupts, each level
\* costing the quantum of that level
RECURSIVE LevelAfter(_, _)
LevelAfter(p, k) ==
    IF p = LowestLevel \/ k < QuantumSpecifier(p)
    THEN p
    ELSE LevelAfter(p - 1, k - QuantumSpecifier(p))

\* C20, as stated: after k consecutive timer interrupts on the only runnable
\* task, started at priority initial with quantum q(initial), its priority is
\* max(floor, initial - floor(k / q(initial))).
C20_PriorityByInitialQuantum ==
    RunsAlone(running) =>
        \A k \in 0..MaxInterrupts :
            AfterTimerInterrupts(State, running, k).priority[running]
                = Max(LowestLevel,
                      priority[running] - (k \div QuantumSpecifier(priority[running])))

\* C20, amended: after k consecutive timer interrupts on the only runnable
\* task the task is returned every time, its priority is the level reached
\* from its initial level by paying, level by level, the quantum of the level
\* it is at, never below the lowest level, and whenever an interrupt uses up
\* the quantum its ticks are reset to the quantum of the level it is then at.
C20_PriorityByLevelQuanta ==
    RunsAlone(running) =>
        \A k \in 0..MaxInterrupts :
            LET before == AfterTimerInterrupts(State, running, k)
                r == onTimerInterrupt(before, running)
            IN  /\ before.priority[running] = LevelAfter(priority[running], k)
                /\ r.ret = running
                /\ hasUsedUpTimeAllotment(tick(before.ticks[running]))
                    => r.s.ticks[running] = QuantumSpecifier(r.s.priority[running])

\* C20 witness: the only task of the system has just used up its quantum
\* under a timer interrupt, was demoted below the top level, got the quantum
\* of its new level and runs on.
C20_Witness ==
    /\ RunsAlone(running)
    /\ inserted = {running}
    /\ call.name = "onTimerInterrupt"
    /\ call.current = running
    /\ result = running
    /\ priority[running] = MaxPriorityLevel - 1

(***************************************************************************)
(* C21: pre-enqueue extensions                                             *)
(***************************************************************************)

C22_QuantumRule ==
    (sched = "MultilevelFeedbackQueue" /\ running \in Tasks
        /\ ticks[running] = QuantumSpecifier(priority[running])) =>
        LET t == running
            p == priority[t]
            q == QuantumSpecifier(p)
            b == AfterTimerInterrupts(State, t, q - 1)
            r == onTimerInterrupt(b, t)
            lower == IF p = LowestLevel THEN p ELSE p - 1
        IN  /\ \A k \in 1..(q - 1) :
                LET rk == onTimerInterrupt(AfterTimerInterrupts(State, t, k - 1), t)
                IN  /\ rk.ret = t
                    /\ rk.s.priority = priority
                    /\ rk.s.queues = queues
                    /\ rk.s.ticks = [ticks EXCEPT ![t] = q - k]
            /\ r.s.priority = [priority EXCEPT ![t] = lower]
            /\ r.s.ticks = [ticks EXCEPT ![t] = QuantumSpecifier(lower)]
            /\ r.ret \in ReadySet(State) \cup {t}
            /\ ReadySet(r.s) = (ReadySet(State) \cup {t}) \ {r.ret}
            /\ \A u \in ReadySet(r.s) : r.s.priority[u] <= r.s.priority[r.ret]

\* C22 witness: a task dispatched from the queue at level 2 with its full
\* quantum of 2, while the task whose quantum the timer interrupt drained
\* waits in the queue.
C22_Witness ==
    /\ sched = "MultilevelFeedbackQueue"
    /\ call.name = "onTimerInterrupt"
    /\ call.current \in Tasks \ {running}
    /\ call.current \in ReadySet(State)
    /\ result = running
    /\ running \in Tasks
    /\ priority[running] = 2
    /\ ticks[running] = QuantumSpecifier(2)

(***************************************************************************)
(* C23: the priority of a ready task is changed                            *)
(***************************************************************************)

\* The step is a call of onTaskPriorityChanged(current, task, old)
PriorityChangedStep == call'.name = "onTaskPriorityChanged"

\* What the call does when the task does not outrank the current task
PriorityChangedKeepsCurrent ==
    /\ result' = call'.current
    /\ call'.task \in Range(queues'[priority'[call'.task]].queue)
    /\ call'.task \notin Range(queues'[priority[call'.task]].queue)

\* C23, as stated: after onTaskPriorityChanged(current, task, old) with task
\* in the ready queue and task.priority > current.priority the call returns
\* task and current is in the ready queue; otherwise it returns current and
\* task sits in the sub-queue of its new priority and not in that of old.
C23_HigherPriorityTaskIsDispatched ==
    [][PriorityChangedStep =>
        IF priority'[call'.task] > priority[call'.current]
        THEN /\ result' = call'.task
             /\ call'.current \in ReadySet(StateAfter)
        ELSE PriorityChangedKeepsCurrent]_vars

\* C23, amended: when task.priority > current.priority the call enqueues
\* current and returns a ready task that no ready task outranks; that task is
\* `task` whenever every other task that was ready has a priority below the
\* new priority of task. Otherwise as stated.
C23_HighestReadyTaskIsDispatched ==
    [][PriorityChangedStep =>
        IF priority'[call'.task] > priority[call'.current]
        THEN /\ call'.current \in ReadySet(StateAfter)
             /\ result' \in (ReadySet(State) \cup {call'.current}) \ ReadySet(StateAfter)
             /\ \A u \in ReadySet(StateAfter) : priority'[u] <= priority'[result']
             /\ (\A u \in ReadySet(State) \ {call'.task} :
                    priority[u] < priority'[call'.task])
                 => result' = call'.task
        ELSE PriorityChangedKeepsCurrent]_vars

\* C23 witness: a ready task was raised above the running task and
\* dispatched while another task waited, and the preempted task is queued.
C23_Witness ==
    /\ call.name = "onTaskPriorityChanged"
    /\ call.current \in ScenarioTasks
    /\ result = call.task
    /\ priority[call.task] > priority[call.current]
    /\ call.current \in ReadySet(State)
    /\ Cardinality(ReadySet(State)) = 2

(***************************************************************************)
(* C24: a ready task is killed                                             *)
(***************************************************************************)

\* The step is a call of onTaskKilled(current, task) with task # current
KilledStep == call'.name = "onTaskKilled" /\ call'.task # call'.current

\* A sequence without a task, the other elements in their order
Without(seq, t) == SelectSeq(seq, LAMBDA x : x # t)

\* C24: onTaskKilled(current, task) with task in the ready queue and not
\* current removes task and nothing else from the ready queue, the other
\* ready tasks keeping their order; with task null the queue is unchanged; an
\* intermediate call returns none and a terminating call returns current.
C24_KilledTaskLeavesQueue ==
    [][KilledStep =>
        /\ \A p \in Levels : queues'[p].queue = Without(queues[p].queue, call'.task)
        /\ call'.task \notin ReadySet(StateAfter)
        /\ priority' = priority
        /\ result' = call'.current
        /\ running' = running]_vars

\* C24 witness: a terminating call killed one of two ready tasks of the
\* same level; the other is still ready and the current task runs on.
C24_Witness ==
    /\ call.name = "onTaskKilled"
    /\ call.current = running
    /\ running \in ScenarioTasks
    /\ call.task \in inserted \ (ReadySet(State) \cup {running})
    /\ \E u \in ReadySet(State) : priority[u] = priority[call.task]

(***************************************************************************)
(* C25: the schedule of the periodic task set                              *)
(***************************************************************************)

\* C25, as stated: the task dispatched in each of the 24 ticks is T1, T2, T3,
\* T3, T1, T1, T2, T2, T3, T3, T3, T3, T1, T1, T2, T2, T3, T3, T3, T3, T2, T2,
\* T1, T1.
C25_ScheduleAsStated ==
    (Settled /\ now < Hyperperiod) =>
        running = <<1, 2, 3, 3, 1, 1, 2, 2, 3, 3, 3, 3,
                    1, 1, 2, 2, 3, 3, 3, 3, 2, 2, 1, 1>>[now + 1]

\* C25, amended: the task dispatched in each of the 24 ticks is T1, T2, T2,
\* T3, T3, T3, T1, T2, T2, T1, T3, T3, T3, T1, T2, T2, T1, T3, T3, T3, T2, T2,
\* T1, idle, in whatever order the events of one instant are delivered.
C25_ScheduleOfTheCode ==
    (Settled /\ now < Hyperperiod) =>
        running = <<1, 2, 2, 3, 3, 3, 1, 2, 2, 1, 3, 3,
                    3, 1, 2, 2, 1, 3, 3, 3, 2, 2, 1, idleTask>>[now + 1]

\* C25 witness: at t = 20, T3 has finished, T1 has been released with the
\* deadline 24 that T2 and T3 also have, and T2, which arrived first, runs.
C25_Witness ==
    /\ Settled
    /\ now = 20
    /\ running = 2
    /\ ReadyList(State) = <<1>>
    /\ deadline[1] = Hyperperiod
    /\ deadline[2] = Hyperperiod

(***************************************************************************)
(* C26: the EDF invariant                                                  *)
(***************************************************************************)

IdleAwareVariants == {"RunNextWithIdleTaskSupport", "KeepRunningCurrentWithIdleTaskSupport"}

\* C27: a terminating onTaskUnblocked call, with the running task as current
\* and a null or an unblocked task, returns a task, never null, in each of the
\* four variants of the handler, whatever the ready queue holds. (A variant
\* without idle task support is called with a task as current.)
C27_TerminatingUnblockReturnsTask ==
    \A v \in UnblockedVariants :
        (v \in IdleAwareVariants \/ running # idleTask) =>
            \A task \in Fresh \cup {NULL} :
                Unblocked(v, State, running, task).ret \in AllTasks

(***************************************************************************)
(* C28: onTaskKilled called against its precondition                       *)
(***************************************************************************)

\* C28: a call of onTaskKilled with current = task, both null included, fails
\* its assertion: it returns no task, the ready queue and the task attributes
\* are as they were before the call and no task is dispatched.
C28_KilledMisuseFailsFast ==
    [][(call'.name = "onTaskKilled" /\ call'.task = call'.current) =>
        /\ result' = ABORTED
        /\ queues' = queues
        /\ arrival' = arrival
        /\ priority' = priority
        /\ running' = running]_vars

\* C28 witness: the kernel passed the running task as the task being killed
\* while another task was ready; the call was aborted.
C28_Witness ==
    /\ call.name = "onTaskKilled"
    /\ call.current = call.task
    /\ call.current = running
    /\ running \in ScenarioTasks
    /\ result = ABORTED
    /\ ReadySet(State) # {}

(***************************************************************************)
(* C29: the round-robin timer handler in the PrioritizedRoundRobin policy  *)
(***************************************************************************)

\* The step is a timer interrupt of the prioritized round-robin scheduler
RoundRobinTimerStep ==
    sched = "PrioritizedRoundRobin" /\ call'.name = "onTimerInterrupt"

\* The ready tasks of a priority above / equal to that of a task
ReadyAbove(t) == {u \in ReadySet(State) : priority[u] > priority[t]}

ReadyEqual(t) == {u \in ReadySet(State) : priority[u] = priority[t]}

\* The highest level that holds a ready task
TopLevel == CHOOSE p \in Levels :
                /\ queues[p].queue # << >>
                /\ \A q \in Levels : q > p => queues[q].queue = << >>

\* What the handler does when the idle task is current: the idle task is not
\* enqueued and the head of the ready queue, or the idle task, is returned
TimerOnIdle ==
    /\ idleTask \notin ReadySet(StateAfter)
    /\ IF ReadySet(State) = {}
       THEN result' = idleTask /\ ReadySet(StateAfter) = {}
       ELSE /\ result' = Head(queues[TopLevel].queue)
            /\ ReadySet(StateAfter) = ReadySet(State) \ {result'}

\* C29, as stated: with the idle task as current the handler returns the head
\* of the ready queue or the idle task; otherwise the running task is
\* returned again whenever every ready task has strictly lower priority, and
\* is replaced by the head of its own level when an equal-priority task is
\* ready.
C29_EqualPriorityTaskTakesOver ==
    [][RoundRobinTimerStep =>
        IF running = idleTask
        THEN TimerOnIdle
        ELSE /\ (ReadyAbove(running) = {} /\ ReadyEqual(running) = {}) =>
                    result' = running
             /\ ReadyEqual(running) # {} =>
                    /\ result' = Head(queues[priority[running]].queue)
                    /\ running \in ReadySet(StateAfter)]_vars

\* C29, amended: as stated, except that the running task is replaced by the
\* head of its own level when an equal-priority task is ready and no ready
\* task has a higher priority; when a ready task has a higher priority the
\* running task is enqueued and the head of the highest level is returned.
C29_HighestLevelTakesOver ==
    [][RoundRobinTimerStep =>
        IF running = idleTask
        THEN TimerOnIdle
        ELSE /\ (ReadyAbove(running) = {} /\ ReadyEqual(running) = {}) =>
                    /\ result' = running
                    /\ queues' = queues
             /\ (ReadyAbove(running) = {} /\ ReadyEqual(running) # {}) =>
                    /\ result' = Head(queues[priority[running]].queue)
                    /\ queues'[priority[running]].queue =
                            Tail(queues[priority[running]].queue) \o <<running>>
             /\ ReadyAbove(running) # {} =>
                    /\ result' = Head(queues[TopLevel].queue)
                    /\ running \in ReadySet(StateAfter)
                    /\ ReadySet(StateAfter) = (ReadySet(State) \cup {running}) \ {result'}]_vars

\* C29 witness: a timer interrupt passed the CPU from the running task to
\* the head of its own level, and the preempted task waits behind a third
\* task of that level.
C29_Witness ==
    /\ sched = "PrioritizedRoundRobin"
    /\ call.name = "onTimerInterrupt"
    /\ call.current \in ScenarioTasks
    /\ result \in ScenarioTasks \ {call.current}
    /\ priority[result] = priority[call.current]
    /\ Len(queues[priority[result]].queue) = 2
    /\ queues[priority[result]].queue[2] = call.current

(***************************************************************************)
(* C30: the quantum-bookkeeping timer handler                              *)
(***************************************************************************)

\* The step is a timer interrupt of the MLFQ assembly
QuantumTimerStep ==
    sched = "MultilevelFeedbackQueue" /\ call'.name = "onTimerInterrupt"

\* The ticks of the running task less one, in the 32-bit arithmetic of
\* SimpleTask::Tick (TickMax stands for UINT32_MAX)
OneTickLess == (ticks[running] - 1) % TickModulus

\* C30: onTimerInterrupt(idle) charges no tick and returns the head of the
\* ready queue or the idle task; onTimerInterrupt(current) takes exactly one
\* tick from current and, if ticks are left, returns current with the ready
\* queue and the priorities unchanged; only when no tick is left is current
\* handed to onTaskQuantumUsedUp, which demotes it and inserts it again.
C30_TimerChargesOneTick ==
    [][QuantumTimerStep =>
        IF running = idleTask
        THEN /\ ticks' = ticks
             /\ priority' = priority
             /\ TimerOnIdle
        ELSE IF OneTickLess # 0
             THEN /\ result' = running
                  /\ ticks' = [ticks EXCEPT ![running] = OneTickLess]
                  /\ queues' = queues
                  /\ priority' = priority
             ELSE /\ priority' = [priority EXCEPT ![running] =
                                    IF @ = LowestLevel THEN @ ELSE @ - 1]
                  /\ ticks' = [ticks EXCEPT ![running] = QuantumSpecifier(priority'[running])]
                  /\ ReadySet(StateAfter) = (ReadySet(State) \cup {running}) \ {result'}]_vars

\* C30 witness: a timer interrupt took one of the two ticks of a task at
\* level 2, which runs on with one tick left.
C30_Witness ==
    /\ sched = "MultilevelFeedbackQueue"
    /\ call.name = "onTimerInterrupt"
    /\ call.current = running
    /\ result = running
    /\ running \in Tasks
    /\ priority[running] = 2
    /\ ticks[running] = 1

(***************************************************************************)
(* C31: the three onTaskQuantumUsedUp handlers                             *)
(***************************************************************************)

\* The three handlers of TaskQuantumUsedUpHandler.hpp
QuantumUsedUpVariants ==
    {"RunNextWithDemotion", "RunNextWithQuantumRecharged",
     "RunNextWithDemotionAndQuantumRecharged"}

\* onTaskQuantumUsedUp(current) of the variant v
QuantumUsedUp(v, s, current) ==
    CASE v = "RunNextWithDemotion" ->
             TaskQuantumUsedUp_RunNextWithDemotion(s, current)
      [] v = "RunNextWithQuantumRecharged" ->
             TaskQuantumUsedUp_RunNextWithQuantumRecharged(s, current)
      [] v = "RunNextWithDemotionAndQuantumRecharged" ->
             TaskQuantumUsedUp_RunNextWithDemotionAndQuantumRecharged(s, current)

\* The variants that demote current / that allocate its ticks themselves
Demoting == {"RunNextWithDemotion", "RunNextWithDemotionAndQuantumRecharged"}
Recharging == {"RunNextWithQuantumRecharged", "RunNextWithDemotionAndQuantumRecharged"}

\* A prioritized assembly has a task on the CPU whose quantum may run out
QuantumMayRunOut ==
    sched \in {"PrioritizedRoundRobin", "MultilevelFeedbackQueue"} /\ running \in Tasks

\* C31: RunNextWithDemotion lowers current by one level (never below the
\* lowest) and leaves its ticks to the policy (the MLFQ policy allocates the
\* quantum of the new level, the plain policy touches nothing);
\* RunNextWithQuantumRecharged keeps the priority and sets the ticks to the
\* quantum of that priority; RunNextWithDemotionAndQuantumRecharged demotes
\* first and sets the ticks to the quantum of the new priority.  All three
\* enqueue current before next(): they never return none, the returned task
\* leaves the queue that now holds current, and current is returned when no
\* other ready task has a priority equal to or higher than the one current
\* is enqueued with.
C31_QuantumUsedUpVariants ==
    QuantumMayRunOut =>
        \A v \in QuantumUsedUpVariants :
            LET r == QuantumUsedUp(v, State, running)
                old == priority[running]
                new == r.s.priority[running]
            IN  /\ new = (IF v \in Demoting THEN demote(old) ELSE old)
                /\ \A u \in AllTasks \ {running} : r.s.priority[u] = priority[u]
                /\ v \in Recharging => r.s.ticks[running] = QuantumSpecifier(new)
                /\ v \notin Recharging =>
                       r.s.ticks[running] =
                           (IF sched = "MultilevelFeedbackQueue"
                            THEN QuantumSpecifier(new) ELSE ticks[running])
                /\ r.ret # NULL
                /\ ReadySet(r.s) = (ReadySet(State) \cup {running}) \ {r.ret}
                /\ (\A u \in ReadySet(State) : priority[u] < new) => r.ret = running

\* The MLFQ timer handed a drained task to RunNextWithDemotion, which demoted
\* it from the top level and returned it again over a ready task of a lower
\* level
C31_Witness ==
    /\ sched = "MultilevelFeedbackQueue"
    /\ call.name = "onTimerInterrupt"
    /\ call.current \in Tasks
    /\ result = call.current
    /\ priority[result] = 2
    /\ ticks[result] = QuantumSpecifier(2)
    /\ \E u \in ReadySet(State) : u # idleTask /\ priority[u] = 1

(***************************************************************************)
(* C32: the running task changes its own priority                          *)
(***************************************************************************)

\* The step is a call of onTaskPriorityChanged(current)
SelfPriorityChangedStep == call'.name = "onTaskSelfPriorityChanged"

\* The last element of a sequence that is not empty
Last(seq) == seq[Len(seq)]

\* C32: onTaskPriorityChanged(current) returns current again exactly when the
\* new priority of current is strictly higher than the priority of every
\* ready task, and then the ready queue is as it was; otherwise it returns
\* the head of the highest level that holds a ready task, a task of equal or
\* higher priority than current, and current stays in the ready queue, at
\* the tail of the sub-queue of its new priority.
C32_SelfPriorityChange ==
    [][SelfPriorityChangedStep =>
        LET current == call'.current
            new == priority'[current]
            ready0 == ReadySet(State)
            top == CHOOSE l \in 1..MaxPriorityLevel :
                       /\ \E u \in ready0 : priority[u] = l
                       /\ \A u \in ready0 : priority[u] <= l
        IN  /\ result' # NULL
            /\ (result' = current) <=> (\A u \in ready0 : priority[u] < new)
            /\ result' = current => ReadyList(StateAfter) = ReadyList(State)
            /\ result' # current =>
                   /\ result' = Head(queues[top].queue)
                   /\ priority[result'] >= new
                   /\ current \in ReadySet(StateAfter)
                   /\ Last(queues'[new].queue) = current
                   /\ ReadySet(StateAfter) = (ready0 \cup {current}) \ {result'}]_vars

\* The running task lowered its priority to that of a ready task: the ready
\* task was returned and the caller waits in the queue
C32_Witness ==
    /\ call.name = "onTaskSelfPriorityChanged"
    /\ result # call.current
    /\ priority[result] = priority[call.current]
    /\ call.current \in ReadySet(State)

(***************************************************************************)
(* C33: the preemptive unblock handler without idle task support           *)
(***************************************************************************)

\* The set that holds the task, empty for no task
Given(task) == IF task = NULL THEN {} ELSE {task}

TieStep(name) ==
    /\ sched = "PrioritizedRoundRobin"
    /\ call'.name = name
    /\ call'.current \in Tasks
    /\ call'.task \in Tasks
    /\ priority[call'.task] = priority[call'.current]

\* C34: in the PrioritizedRoundRobin assembly a terminating
\* onTaskUnblocked(current, task) with a task of the priority of current and
\* no ready task of higher priority puts task ahead of current in the
\* sub-queue of that level and returns task, or a task of that level queued
\* earlier, never current; onTaskCreated(current, task) with a task of the
\* priority of current returns current and enqueues task.
C34_TiesUnblockVersusCreation ==
    [][/\ (TieStep("onTaskUnblocked") /\ ReadyAbove(call'.current) = {}) =>
            LET current == call'.current
                task == call'.task
                level == queues'[priority[current]].queue
            IN  /\ result' # current
                /\ priority[result'] = priority[current]
                /\ result' = task \/ result' \in ReadySet(State)
                /\ current \in Range(level)
                /\ result' # task => Position(level, task) < Position(level, current)
                /\ result' = task => ReadyEqual(current) = {}
       /\ TieStep("onTaskCreated") =>
            /\ result' = call'.current
            /\ call'.task \in ReadySet(StateAfter)
            /\ call'.current \notin ReadySet(StateAfter)]_vars

\* A task of the priority of the running task was unblocked and took the CPU
\* from it
C34_Witness ==
    /\ sched = "PrioritizedRoundRobin"
    /\ call.name = "onTaskUnblocked"
    /\ call.current \in Tasks
    /\ call.task \in Tasks
    /\ priority[call.task] = priority[call.current]
    /\ result = call.task
    /\ call.current \in ReadySet(State)

(***************************************************************************)
(* C35: the ticks of a dispatched task in the MLFQ assembly                *)
(***************************************************************************)

\* C35: in the MultilevelFeedbackQueue assembly every task other than the
\* idle task that a terminating event call returns has at least one tick
\* left, so that the timer interrupt never takes a tick from a counter that
\* is zero.
C35_DispatchedTaskHasTicks ==
    (sched = "MultilevelFeedbackQueue" /\ Terminating /\ result \in Tasks) =>
        ticks[result] >= 1

(***************************************************************************)
(* C36: no runnable task is lost                                           *)
(***************************************************************************)

\* The tasks the scheduler accounts for: the running one (the task the last
\* terminating call returned) and the ready ones
Runnable == (ReadySet(State) \cup {running}) \ {idleTask}

RunnableAfter == (ReadySet(StateAfter) \cup {running'}) \ {idleTask}

\* The task that leaves the system with the call: current, in onTaskFinished
\* and onTaskBlocked
Leaves ==
    IF call'.name \in {"onTaskFinished", "onTaskBlocked"} THEN {call'.current} ELSE {}

\* C36: in the FIFO, RoundRobin, PrioritizedRoundRobin and
\* MultilevelFeedbackQueue assemblies every call keeps account of every
\* runnable task: the tasks that are running or ready after the call are
\* those that were running or ready before it, with the task the call admits
\* and without the task that finished or blocked.  Hence a task that was
\* admitted and has not finished or blocked since is, after each terminating
\* call, the returned task or in the ready queue.
C36_NoRunnableTaskLost ==
    [][sched # "EarliestDeadlineFirst" =>
        RunnableAfter = (Runnable \cup Given(call'.task)) \ Leaves]_vars

\* A terminating call took the CPU from a task that neither finished nor
\* blocked: the task waits in the ready queue
C36_Witness ==
    /\ sched # "EarliestDeadlineFirst"
    /\ Terminating
    /\ call.name \notin {"onTaskFinished", "onTaskBlocked"}
    /\ call.current \in Tasks
    /\ result \in Tasks \ {call.current}
    /\ call.current \in ReadySet(State)

(***************************************************************************)
(* C37: every task of the MLFQ assembly sinks to the lowest level          *)
(***************************************************************************)

\* The step is a timer interrupt on a task of the lowest level that has more
\* than one tick left
LowestLevelTimerStep ==
    /\ call'.name = "onTimerInterrupt"
    /\ running \in ScenarioTasks
    /\ priority[running] = LowestLevel
    /\ ticks[running] > 1

\* C37: in the MultilevelFeedbackQueue assembly, with tasks admitted by
\* ready(), the first one dispatched by next() and then timer interrupts
\* only, no step raises the priority of a task; a timer interrupt on a task
\* of level 1 that has ticks left after the interrupt returns that task; and,
\* as long as timer interrupts keep coming, once a task runs (no task is
\* admitted from then on) every admitted task eventually is at level 1.
C37_EveryTaskSinksToLowestLevel ==
    /\ [][\A t \in ScenarioTasks : priority'[t] <= priority[t]]_vars
    /\ [][LowestLevelTimerStep =>
            /\ result' = running
            /\ ticks'[running] = ticks[running] - 1
            /\ priority'[running] = LowestLevel]_vars
    /\ (running # idleTask) ~> (\A t \in inserted : priority[t] = LowestLevel)

\* Every task was admitted, each at its own level, and now all of them are at
\* level 1 while one of them runs on the quantum of that level
C37_Witness ==
    /\ inserted = ScenarioTasks
    /\ \A t \in ScenarioTasks : priority[t] = LowestLevel
    /\ call.name = "onTimerInterrupt"
    /\ running \in ScenarioTasks
    /\ ticks[running] = TickMax - 1

(***************************************************************************)
(* C39: the two prioritized policies return the same tasks                 *)
(***************************************************************************)

\* C39: over every interleaving of ready() and next() made on both policies,
\* with priorities that do not change, each next() returns from the
\* prioritized multi-queue the task it returns from the prioritized single
\* queue, or none from both; the single queue holds the tasks of the
\* sub-queues, from the highest level to the lowest.
C39_PoliciesReturnTheSame ==
    /\ call.name = "next" => result.multi = result.single
    /\ queue = Flatten(queues, MaxPriorityLevel)

\* Both policies returned the task that arrived first among two of the same
\* priority, while a task of lower priority that arrived before them waits
C39_Witness ==
    /\ call.name = "next"
    /\ result.multi \in ScenarioTasks
    /\ Len(queue) = 2
    /\ priority[queue[1]] = priority[result.multi]
    /\ priority[queue[2]] < priority[result.multi]
    /\ arrival[1] = queue[2]

====
